---------------------------- MODULE Spec2Model ----------------------------
(***************************************************************************)
(* A model of convert_to_traditional.py: the batch driver (main), the      *)
(* per-file handler (convert_json_file) and the text pipeline              *)
(* (convert_chinese_in_text): the quote/escape scanner that feeds segment  *)
(* contents to the OpenCC converter, the manual corrections and the        *)
(* per-line trailing-whitespace trim.                                      *)
(*                                                                         *)
(* A text is a sequence of characters; a character is a one-character      *)
(* string, or "U+XXXX" for a character outside ASCII.                      *)
(***************************************************************************)
EXTENDS Integers, Sequences, FiniteSets, TLC

VARIABLES
    json_files,          \* main: the paths found by the two globs, in order
    fs,                  \* the file system: path -> file content
    file_idx,            \* main: position of the for loop in json_files
    success_count,       \* main
    failed_files,        \* main
    report,              \* main: what the summary prints ("None" before it)
    cc,                  \* the converter in use: "s2t" or "identity"
    manual_corrections,  \* the value of MANUAL_CORRECTIONS
    pc,                  \* position of the single thread of control
    text,                \* convert_chinese_in_text: its argument
    i,
    in_string,
    escape_next,
    current_segment,
    string_start_char,
    result,
    converted_text,
    error,               \* the exception in flight ("None" when there is none)
    segments,            \* history: the contents handed to cc.convert so far
    boundaries,          \* history: positions of the quotes that opened or closed a string
    steps,               \* history: iterations of the while loop so far
    stage_in,            \* history: the text the last pipeline stage received
    fs0,                 \* history: the file system before the run
    outcome              \* history: path -> how its conversion ended ("pending" before)

vars == <<json_files, fs, file_idx, success_count, failed_files, report, cc,
          manual_corrections, pc, text, i, in_string, escape_next,
          current_segment, string_start_char, result, converted_text, error,
          segments, boundaries, steps, stage_in, fs0, outcome>>

mainVars == <<json_files, file_idx, success_count, failed_files, report>>
envVars == <<cc, manual_corrections, fs0>>
scanVars == <<text, i, in_string, escape_next, current_segment,
              string_start_char, result, segments, boundaries, steps>>

---------------------------------------------------------------------------
(* Characters *)

DQUOTE == "\""
SQUOTE == "'"
BACKSLASH == "\\"
LF == "\n"
SPACE == " "
TAB == "\t"
CR == "\r"
IDEOGRAPHIC_SPACE == "U+3000"
ZH_LI == "U+91CC"

QUOTES == {DQUOTE, SQUOTE}

\* What str.rstrip() with no argument strips: every character c with
\* c.isspace(), of which these are the ones the model's alphabets hold.
PY_WHITESPACE == {SPACE, TAB, LF, CR, IDEOGRAPHIC_SPACE}

---------------------------------------------------------------------------
(* Bounds *)

MaxLen == 4
MaxFiles == 3
MaxLineLen == 4
MaxCorrLen == 3

MaxManyFiles == 11
MaxPipeLen == 3

TextsOver(alphabet, n) == UNION {[1..m -> alphabet] : m \in 0..n}

---------------------------------------------------------------------------
(* The converter and the corrections table *)

\* OpenCC's character table, as far as the model's alphabets go: the
\* simplified li becomes the traditional variant that MANUAL_CORRECTIONS
\* then replaces; every other character of the alphabets maps to itself.
S2T(c) == IF c = ZH_LI THEN "U+88CF" ELSE c

\* cc.convert(s) when it returns: OpenCC's conversion, the identity, or
\* a converter that returns its argument between two spaces (one whose
\* result differs in length from its argument, also for the empty text).
cc_convert(s) ==
    IF cc = "pad" THEN <<SPACE>> \o s \o <<SPACE>>
    ELSE [p \in 1..Len(s) |-> IF cc = "s2t" THEN S2T(s[p]) ELSE s[p]]

\* wrong -> correct, in the dict's insertion order.
MANUAL_CORRECTIONS ==
    << << <<"U+88CF">>, <<"U+88E1">> >>,
       << <<"U+7240">>, <<"U+5E8A">> >>,
       << <<"U+7E94">>, <<"U+624D">> >>,
       << <<"U+7232">>, <<"U+70BA">> >>,
       << <<"U+7FA3">>, <<"U+7FA4">> >>,
       << <<"U+8846">>, <<"U+773E">> >>,
       << <<"U+55AB">>, <<"U+5403">> >>,
       << <<"U+77AD">>, <<"U+4E86">> >>,
       << <<"U+9EF4">>, <<"U+9709">> >> >>

---------------------------------------------------------------------------
(* Pure functions of the pipeline *)

StartsWith(s, p, old) ==
    /\ p + Len(old) - 1 <= Len(s)
    /\ \A q \in 1..Len(old) : s[p + q - 1] = old[q]

\* s[p..] with every non-overlapping occurrence of old, found left to
\* right, replaced by new (old is not empty).
RECURSIVE ReplaceFrom(_, _, _, _)
ReplaceFrom(s, p, old, new) ==
    IF p > Len(s) THEN <<>>
    ELSE IF StartsWith(s, p, old)
         THEN new \o ReplaceFrom(s, p + Len(old), old, new)
         ELSE <<s[p]>> \o ReplaceFrom(s, p + 1, old, new)

\* new before every character of s[p..] (str.replace with an empty old).
RECURSIVE Interleave(_, _, _)
Interleave(s, p, new) ==
    IF p > Len(s) THEN <<>>
    ELSE new \o <<s[p]>> \o Interleave(s, p + 1, new)

\* s.replace(old, new)
str_replace(s, old, new) ==
    IF old = <<>> THEN Interleave(s, 1, new) \o new
    ELSE ReplaceFrom(s, 1, old, new)

\* CorrectionPair walking the table from its end.
CorrectionPair_Reversed(table, n) == table[Len(table) + 1 - n]

\* The pair the n-th iteration of the for loop over the dict's items gets.
CorrectionPair(table, n) == table[n]

\* The for loop of apply_manual_corrections from its n-th iteration on.
RECURSIVE CorrectionsFrom(_, _, _)
CorrectionsFrom(s, table, n) ==
    IF n > Len(table) THEN s
    ELSE CorrectionsFrom(str_replace(s, CorrectionPair(table, n)[1],
                                        CorrectionPair(table, n)[2]),
                         table, n + 1)

apply_manual_corrections(s, table) == CorrectionsFrom(s, table, 1)

\* s.split('\n'), scanning from position p with the line so far in acc.
RECURSIVE SplitFrom(_, _, _)
SplitFrom(s, p, acc) ==
    IF p > Len(s) THEN <<acc>>
    ELSE IF s[p] = LF THEN <<acc>> \o SplitFrom(s, p + 1, <<>>)
         ELSE SplitFrom(s, p + 1, Append(acc, s[p]))

split_lines(s) == SplitFrom(s, 1, <<>>)

\* rstrip removing one trailing whitespace character only.
rstrip_Once(line) ==
    IF line # <<>> /\ line[Len(line)] \in PY_WHITESPACE
    THEN SubSeq(line, 1, Len(line) - 1)
    ELSE line

\* line.rstrip()
RECURSIVE rstrip(_)
rstrip(line) ==
    IF line # <<>> /\ line[Len(line)] \in PY_WHITESPACE
    THEN rstrip(SubSeq(line, 1, Len(line) - 1))
    ELSE line

\* sep.join(pieces) from the p-th piece on.
RECURSIVE JoinFrom(_, _, _)
JoinFrom(pieces, p, sep) ==
    IF p > Len(pieces) THEN <<>>
    ELSE IF p = Len(pieces) THEN pieces[p]
         ELSE pieces[p] \o sep \o JoinFrom(pieces, p + 1, sep)

join(sep, pieces) == JoinFrom(pieces, 1, sep)

\* rstrip_lines stripping the end of the whole text only.
rstrip_lines_WholeText(s) == rstrip(s)

\* Lines 107-109: split on line feed, rstrip each line, join with line feed.
rstrip_lines(s) ==
    LET lines == split_lines(s)
    IN  join(<<LF>>, [n \in 1..Len(lines) |-> rstrip(lines[n])])

---------------------------------------------------------------------------
(* Initial states *)

\* The characters of the documents the batch is run on.
Alphabet == {DQUOTE, SQUOTE, BACKSLASH, ZH_LI, SPACE, LF}

\* The double-quoted string holding a single quote, and two strings side
\* by side.
ExampleDocs ==
    { <<DQUOTE, "A", SQUOTE, "B", DQUOTE>>,
      <<DQUOTE, "A", DQUOTE, SQUOTE, "B", SQUOTE>> }

\* The documents of the batches of several files: text outside any
\* string, a closed string, and a string left open that ends in a
\* backslash.
BatchDocs ==
    { <<ZH_LI, SPACE>>,
      <<DQUOTE, ZH_LI, DQUOTE>>,
      <<SQUOTE, BACKSLASH>> }

Paths(n) == [j \in 1..n |-> j]

\* The locals of convert_chinese_in_text outside a call.
NoCall ==
    /\ text = <<>>
    /\ i = 0
    /\ in_string = FALSE
    /\ escape_next = FALSE
    /\ current_segment = <<>>
    /\ string_start_char = "None"
    /\ result = <<>>
    /\ converted_text = <<>>
    /\ segments = <<>>
    /\ boundaries = {}
    /\ steps = 0
    /\ stage_in = <<>>

\* main after lines 136-146: the files found, nothing converted yet.
InitMain(files) ==
    /\ json_files = Paths(Cardinality(DOMAIN files))
    /\ fs = files
    /\ fs0 = files
    /\ file_idx = 1
    /\ success_count = 0
    /\ failed_files = <<>>
    /\ outcome = [p \in DOMAIN files |-> "pending"]
    /\ report = "None"
    /\ error = "None"
    /\ pc = "main_loop"
    /\ NoCall

Init ==
    /\ cc \in {"s2t", "identity", "pad"}
    /\ manual_corrections = MANUAL_CORRECTIONS
    /\ \E files \in [{1} -> TextsOver(Alphabet, MaxLen) \cup ExampleDocs]
                    \cup UNION {[1..n -> BatchDocs] : n \in 0..MaxFiles} :
           InitMain(files)

---------------------------------------------------------------------------
(* convert_json_file, up to the call of convert_chinese_in_text *)

CurrentPath == json_files[file_idx]

\* json_file.name
FileName(path) == path

\* ReadFile with the scan state left as the last call had it: only the
\* text, the position and the output are set anew.
ReadFile_KeepsState ==
    /\ pc = "main_loop"
    /\ file_idx <= Len(json_files)
    /\ text' = fs[CurrentPath]
    /\ i' = 0
    /\ result' = <<>>
    /\ segments' = <<>>
    /\ boundaries' = {}
    /\ steps' = 0
    /\ pc' = "scan"
    /\ UNCHANGED <<mainVars, outcome, envVars, fs, converted_text, error, stage_in,
                   in_string, escape_next, current_segment, string_start_char>>

\* Lines 116-123 and 39-44: the file is read and the scan starts.
ReadFile ==
    /\ pc = "main_loop"
    /\ file_idx <= Len(json_files)
    /\ text' = fs[CurrentPath]
    /\ i' = 0
    /\ in_string' = FALSE
    /\ escape_next' = FALSE
    /\ current_segment' = <<>>
    /\ string_start_char' = "None"
    /\ result' = <<>>
    /\ segments' = <<>>
    /\ boundaries' = {}
    /\ steps' = 0
    /\ pc' = "scan"
    /\ UNCHANGED <<mainVars, outcome, envVars, fs, converted_text, error, stage_in>>

\* Lines 119-120 raise (the file cannot be opened or decoded).
ReadFails ==
    /\ pc = "main_loop"
    /\ file_idx <= Len(json_files)
    /\ error' = "IoError"
    /\ outcome' = [outcome EXCEPT ![CurrentPath] = "IoError"]
    /\ pc' = "except"
    /\ UNCHANGED <<mainVars, envVars, scanVars, fs, converted_text, stage_in>>

---------------------------------------------------------------------------
(* convert_chinese_in_text: the while loop *)

char == text[i + 1]

InLoop == pc = "scan" /\ i < Len(text)

\* ConvertRaises with the file opened for writing before the conversion:
\* what was converted so far is what the file holds.
ConvertRaises_WritesPartial ==
    /\ error' = "TransformError"
    /\ outcome' = [outcome EXCEPT ![CurrentPath] = "TransformError"]
    /\ fs' = [fs EXCEPT ![CurrentPath] = join(<<>>, result)]
    /\ pc' = "except"
    /\ UNCHANGED <<mainVars, envVars, scanVars, converted_text, stage_in>>

\* A call of cc.convert raises: the exception leaves
\* convert_chinese_in_text for the handler of convert_json_file.
ConvertRaises ==
    /\ error' = "TransformError"
    /\ outcome' = [outcome EXCEPT ![CurrentPath] = "TransformError"]
    /\ pc' = "except"
    /\ UNCHANGED <<mainVars, envVars, scanVars, fs, converted_text, stage_in>>

\* ScanEscaped without line 51: the escaped character is not kept.
ScanEscaped_DropsChar ==
    /\ InLoop
    /\ escape_next
    /\ escape_next' = FALSE
    /\ i' = i + 1
    /\ steps' = steps + 1
    /\ UNCHANGED <<mainVars, outcome, envVars, fs, pc, text, in_string,
                   string_start_char, result, converted_text, error, segments,
                   boundaries, stage_in, current_segment>>

\* ScanEscaped without line 52: the escape stays set.
ScanEscaped_KeepsEscape ==
    /\ InLoop
    /\ escape_next
    /\ current_segment' = Append(current_segment, char)
    /\ i' = i + 1
    /\ steps' = steps + 1
    /\ UNCHANGED <<mainVars, outcome, envVars, fs, pc, text, in_string,
                   string_start_char, result, converted_text, error, segments,
                   boundaries, stage_in, escape_next>>

\* Lines 50-54.
ScanEscaped ==
    /\ InLoop
    /\ escape_next
    /\ current_segment' = Append(current_segment, char)
    /\ escape_next' = FALSE
    /\ i' = i + 1
    /\ steps' = steps + 1
    /\ UNCHANGED <<mainVars, outcome, envVars, fs, pc, text, in_string, string_start_char,
                   result, converted_text, error, segments, boundaries, stage_in>>

\* ScanBackslash without line 58: the backslash defers nothing.
ScanBackslash_NoEscape ==
    /\ InLoop
    /\ ~escape_next
    /\ char = BACKSLASH
    /\ current_segment' = Append(current_segment, char)
    /\ i' = i + 1
    /\ steps' = steps + 1
    /\ UNCHANGED <<mainVars, outcome, envVars, fs, pc, text, in_string,
                   string_start_char, result, converted_text, error, segments,
                   boundaries, stage_in, escape_next>>

\* ScanBackslash with the escape set inside strings only.
ScanBackslash_OnlyInString ==
    /\ InLoop
    /\ ~escape_next
    /\ char = BACKSLASH
    /\ current_segment' = Append(current_segment, char)
    /\ escape_next' = in_string
    /\ i' = i + 1
    /\ steps' = steps + 1
    /\ UNCHANGED <<mainVars, outcome, envVars, fs, pc, text, in_string,
                   string_start_char, result, converted_text, error, segments,
                   boundaries, stage_in>>

\* Lines 56-60.
ScanBackslash ==
    /\ InLoop
    /\ ~escape_next
    /\ char = BACKSLASH
    /\ current_segment' = Append(current_segment, char)
    /\ escape_next' = TRUE
    /\ i' = i + 1
    /\ steps' = steps + 1
    /\ UNCHANGED <<mainVars, outcome, envVars, fs, pc, text, in_string, string_start_char,
                   result, converted_text, error, segments, boundaries, stage_in>>

AtQuote == InLoop /\ ~escape_next /\ char # BACKSLASH /\ char \in QUOTES

\* Lines 72-75 and 88.
StartString ==
    /\ in_string' = TRUE
    /\ string_start_char' = char
    /\ boundaries' = boundaries \cup {i + 1}
    /\ i' = i + 1
    /\ steps' = steps + 1
    /\ UNCHANGED <<mainVars, outcome, envVars, fs, pc, text, escape_next, converted_text,
                   error, stage_in>>

\* ScanOpenQuote without line 70: what was flushed stays in the buffer.
ScanOpenQuote_NoClear ==
    /\ AtQuote
    /\ ~in_string
    /\ \/ /\ current_segment = <<>>
          /\ result' = Append(result, <<char>>)
          /\ UNCHANGED <<current_segment, segments>>
          /\ StartString
       \/ /\ current_segment # <<>>
          /\ result' = result \o <<cc_convert(current_segment), <<char>> >>
          /\ segments' = Append(segments, [kind |-> "Structural",
                                            content |-> current_segment])
          /\ UNCHANGED current_segment
          /\ StartString
       \/ /\ current_segment # <<>>
          /\ ConvertRaises

\* ScanOpenQuote with the opening quote handed to the converter.
ScanOpenQuote_ConvertsQuote ==
    /\ AtQuote
    /\ ~in_string
    /\ \/ /\ current_segment = <<>>
          /\ result' = Append(result, cc_convert(<<char>>))
          /\ UNCHANGED <<current_segment, segments>>
          /\ StartString
       \/ /\ current_segment # <<>>
          /\ result' = result \o <<cc_convert(current_segment), cc_convert(<<char>>)>>
          /\ segments' = Append(segments, [kind |-> "Structural",
                                            content |-> current_segment])
          /\ current_segment' = <<>>
          /\ StartString
       \/ /\ current_segment # <<>>
          /\ ConvertRaises

\* ScanOpenQuote without the test of line 66: the buffer is converted and
\* flushed also when it is empty.
ScanOpenQuote_FlushesEmpty ==
    /\ AtQuote
    /\ ~in_string
    /\ \/ /\ result' = result \o <<cc_convert(current_segment), <<char>> >>
          /\ segments' = Append(segments, [kind |-> "Structural",
                                            content |-> current_segment])
          /\ current_segment' = <<>>
          /\ StartString
       \/ ConvertRaises

\* Lines 64-75: a quote outside a string.
ScanOpenQuote ==
    /\ AtQuote
    /\ ~in_string
    /\ \/ /\ current_segment = <<>>
          /\ result' = Append(result, <<char>>)
          /\ UNCHANGED <<current_segment, segments>>
          /\ StartString
       \/ /\ current_segment # <<>>
          /\ result' = result \o <<cc_convert(current_segment), <<char>> >>
          /\ segments' = Append(segments, [kind |-> "Structural",
                                            content |-> current_segment])
          /\ current_segment' = <<>>
          /\ StartString
       \/ /\ current_segment # <<>>
          /\ ConvertRaises

\* ScanCloseQuote with the closing quote appended to the buffer before
\* the buffer is converted.
ScanCloseQuote_KeepsQuote ==
    /\ AtQuote
    /\ in_string
    /\ char = string_start_char
    /\ \/ /\ result' = Append(result, cc_convert(Append(current_segment, char)))
          /\ segments' = Append(segments, [kind |-> "String",
                                            content |-> Append(current_segment, char)])
          /\ current_segment' = <<>>
          /\ in_string' = FALSE
          /\ string_start_char' = "None"
          /\ boundaries' = boundaries \cup {i + 1}
          /\ i' = i + 1
          /\ steps' = steps + 1
          /\ UNCHANGED <<mainVars, outcome, envVars, fs, pc, text, escape_next,
                         converted_text, error, stage_in>>
       \/ ConvertRaises

\* ScanCloseQuote without line 84: the delimiter stays recorded.
ScanCloseQuote_KeepsDelimiter ==
    /\ AtQuote
    /\ in_string
    /\ char = string_start_char
    /\ \/ /\ result' = result \o <<cc_convert(current_segment), <<char>> >>
          /\ segments' = Append(segments, [kind |-> "String",
                                            content |-> current_segment])
          /\ current_segment' = <<>>
          /\ in_string' = FALSE
          /\ boundaries' = boundaries \cup {i + 1}
          /\ i' = i + 1
          /\ steps' = steps + 1
          /\ UNCHANGED <<mainVars, outcome, envVars, fs, pc, text, escape_next,
                         converted_text, error, stage_in, string_start_char>>
       \/ ConvertRaises

\* Lines 76-84 and 88: the quote that opened the string.
ScanCloseQuote ==
    /\ AtQuote
    /\ in_string
    /\ char = string_start_char
    /\ \/ /\ result' = result \o <<cc_convert(current_segment), <<char>> >>
          /\ segments' = Append(segments, [kind |-> "String",
                                            content |-> current_segment])
          /\ current_segment' = <<>>
          /\ in_string' = FALSE
          /\ string_start_char' = "None"
          /\ boundaries' = boundaries \cup {i + 1}
          /\ i' = i + 1
          /\ steps' = steps + 1
          /\ UNCHANGED <<mainVars, outcome, envVars, fs, pc, text, escape_next,
                         converted_text, error, stage_in>>
       \/ ConvertRaises

\* ScanOtherQuote with line 76 dropped: any quote closes the string.
ScanOtherQuote_Closes ==
    /\ AtQuote
    /\ in_string
    /\ char # string_start_char
    /\ result' = result \o <<cc_convert(current_segment), <<char>> >>
    /\ segments' = Append(segments, [kind |-> "String",
                                      content |-> current_segment])
    /\ current_segment' = <<>>
    /\ in_string' = FALSE
    /\ string_start_char' = "None"
    /\ boundaries' = boundaries \cup {i + 1}
    /\ i' = i + 1
    /\ steps' = steps + 1
    /\ UNCHANGED <<mainVars, outcome, envVars, fs, pc, text, escape_next,
                   converted_text, error, stage_in>>

\* Lines 85-88: the other quote inside a string.
ScanOtherQuote ==
    /\ AtQuote
    /\ in_string
    /\ char # string_start_char
    /\ current_segment' = Append(current_segment, char)
    /\ i' = i + 1
    /\ steps' = steps + 1
    /\ UNCHANGED <<mainVars, outcome, envVars, fs, pc, text, in_string, escape_next,
                   string_start_char, result, converted_text, error, segments,
                   boundaries, stage_in>>

\* ScanOrdinary without line 93: the loop does not advance.
ScanOrdinary_NoAdvance ==
    /\ InLoop
    /\ ~escape_next
    /\ char # BACKSLASH
    /\ char \notin QUOTES
    /\ current_segment' = Append(current_segment, char)
    /\ steps' = steps + 1
    /\ UNCHANGED <<mainVars, outcome, envVars, fs, pc, text, in_string, escape_next,
                   string_start_char, result, converted_text, error, segments,
                   boundaries, stage_in, i>>

\* Lines 91-93.
ScanOrdinary ==
    /\ InLoop
    /\ ~escape_next
    /\ char # BACKSLASH
    /\ char \notin QUOTES
    /\ current_segment' = Append(current_segment, char)
    /\ i' = i + 1
    /\ steps' = steps + 1
    /\ UNCHANGED <<mainVars, outcome, envVars, fs, pc, text, in_string, escape_next,
                   string_start_char, result, converted_text, error, segments,
                   boundaries, stage_in>>

ScanStep ==
    \/ ScanEscaped
    \/ ScanBackslash
    \/ ScanOpenQuote
    \/ ScanCloseQuote
    \/ ScanOtherQuote
    \/ ScanOrdinary

---------------------------------------------------------------------------
(* convert_chinese_in_text: after the loop *)

\* The kind of the segment that is open.
OpenKind == IF in_string THEN "String" ELSE "Structural"

\* Lines 95-101: the loop is over; what is left is converted and the
\* pieces are joined.
FinalFlush ==
    /\ pc = "scan"
    /\ i >= Len(text)
    /\ \/ /\ current_segment = <<>>
          /\ converted_text' = join(<<>>, result)
          /\ pc' = "corrections"
          /\ UNCHANGED <<mainVars, outcome, envVars, scanVars, fs, error, stage_in>>
       \/ /\ current_segment # <<>>
          /\ result' = Append(result, cc_convert(current_segment))
          /\ segments' = Append(segments, [kind |-> OpenKind,
                                            content |-> current_segment])
          /\ converted_text' = join(<<>>, result')
          /\ pc' = "corrections"
          /\ UNCHANGED <<mainVars, outcome, envVars, fs, text, i, in_string, escape_next,
                         current_segment, string_start_char, boundaries, steps,
                         error, stage_in>>
       \/ /\ current_segment # <<>>
          /\ ConvertRaises

\* ApplyManualCorrections with the lines trimmed before the corrections
\* are applied.
ApplyManualCorrections_TrimsFirst ==
    /\ pc = "corrections"
    /\ stage_in' = converted_text
    /\ converted_text' = apply_manual_corrections(rstrip_lines(converted_text),
                                                  manual_corrections)
    /\ pc' = "rstrip"
    /\ UNCHANGED <<mainVars, outcome, envVars, scanVars, fs, error>>

\* Line 104.
ApplyManualCorrections ==
    /\ pc = "corrections"
    /\ stage_in' = converted_text
    /\ converted_text' = apply_manual_corrections(converted_text, manual_corrections)
    /\ pc' = "rstrip"
    /\ UNCHANGED <<mainVars, outcome, envVars, scanVars, fs, error>>

\* Lines 107-111.
RstripLines ==
    /\ pc = "rstrip"
    /\ stage_in' = converted_text
    /\ converted_text' = rstrip_lines(converted_text)
    /\ pc' = "write"
    /\ UNCHANGED <<mainVars, outcome, envVars, scanVars, fs, error>>

---------------------------------------------------------------------------
(* convert_json_file after the call, and main *)

\* Lines 126-129 and 149-150: the file is overwritten with the result.
WriteFile ==
    /\ pc = "write"
    /\ fs' = [fs EXCEPT ![CurrentPath] = converted_text]
    /\ outcome' = [outcome EXCEPT ![CurrentPath] = "ok"]
    /\ success_count' = success_count + 1
    /\ file_idx' = file_idx + 1
    /\ pc' = "main_loop"
    /\ UNCHANGED <<json_files, failed_files, report, envVars, scanVars,
                   converted_text, error, stage_in>>

\* Lines 126-127 raise: the file cannot be opened for writing and is left
\* as it was, or the write fails after open() has truncated it.
WriteFails ==
    /\ pc = "write"
    /\ \E left \in {fs[CurrentPath]}
                   \cup {SubSeq(converted_text, 1, n) : n \in 0..(Len(converted_text) - 1)} :
           fs' = [fs EXCEPT ![CurrentPath] = left]
    /\ error' = "IoError"
    /\ outcome' = [outcome EXCEPT ![CurrentPath] = "IoError"]
    /\ pc' = "except"
    /\ UNCHANGED <<mainVars, envVars, scanVars, converted_text, stage_in>>

\* ExceptHandler with the exception ending the for loop.
ExceptHandler_Aborts ==
    /\ pc = "except"
    /\ failed_files' = Append(failed_files, FileName(CurrentPath))
    /\ file_idx' = Len(json_files) + 1
    /\ error' = "None"
    /\ pc' = "main_loop"
    /\ UNCHANGED <<json_files, success_count, report, outcome, envVars, scanVars,
                   fs, converted_text, stage_in>>

\* ExceptHandler with the failed file tried again.
ExceptHandler_Retries ==
    /\ pc = "except"
    /\ failed_files' = Append(failed_files, FileName(CurrentPath))
    /\ error' = "None"
    /\ pc' = "main_loop"
    /\ UNCHANGED <<json_files, success_count, report, outcome, envVars, scanVars,
                   fs, converted_text, stage_in, file_idx>>

\* Lines 130-132 and 151-152: the handler returns False and main records
\* the file's name.
ExceptHandler ==
    /\ pc = "except"
    /\ failed_files' = Append(failed_files, FileName(CurrentPath))
    /\ file_idx' = file_idx + 1
    /\ error' = "None"
    /\ pc' = "main_loop"
    /\ UNCHANGED <<json_files, success_count, report, outcome, envVars, scanVars,
                   fs, converted_text, stage_in>>

\* failed_files[:10]
ShownFailures == 10

Min(a, b) == IF a <= b THEN a ELSE b

\* Lines 154-161: the summary.
PrintSummary ==
    /\ pc = "main_loop"
    /\ file_idx > Len(json_files)
    /\ report' = [succeeded |-> success_count,
                  total |-> Len(json_files),
                  failed |-> Len(failed_files),
                  shown |-> SubSeq(failed_files, 1, Min(ShownFailures, Len(failed_files))),
                  more |-> IF Len(failed_files) > ShownFailures
                           THEN Len(failed_files) - ShownFailures ELSE 0]
    /\ pc' = "done"
    /\ UNCHANGED <<json_files, file_idx, success_count, failed_files, outcome,
                   envVars, scanVars, fs, converted_text, error, stage_in>>

Next ==
    \/ ReadFile
    \/ ReadFails
    \/ ScanStep
    \/ FinalFlush
    \/ ApplyManualCorrections
    \/ RstripLines
    \/ WriteFile
    \/ WriteFails
    \/ ExceptHandler
    \/ PrintSummary

Spec == Init /\ [][Next]_vars

---------------------------------------------------------------------------
(* Batches of many files *)

\* A document that takes the scan through every branch of its loop.
RichDoc == <<ZH_LI, DQUOTE, BACKSLASH, DQUOTE, SQUOTE, DQUOTE>>

\* main with up to MaxManyFiles files found: empty files, and RichDoc as
\* the last one.
InitMany ==
    /\ cc = "s2t"
    /\ manual_corrections = MANUAL_CORRECTIONS
    /\ \E n \in 0..MaxManyFiles :
           InitMain([j \in 1..n |-> IF j = n THEN RichDoc ELSE <<>>])

SpecMany == InitMany /\ [][Next]_vars

---------------------------------------------------------------------------
(* One file under any converter and any corrections table *)

PipeAlphabet == {DQUOTE, SQUOTE, BACKSLASH, "A", SPACE, TAB, LF}

\* The table of the program; one that puts a space after a character;
\* one that turns a character into a tab and removes the line feeds.
PipeTables ==
    { MANUAL_CORRECTIONS,
      << << <<"A">>, <<"A", SPACE>> >> >>,
      << << <<"A">>, <<TAB>> >>, << <<LF>>, <<>> >> >> }

\* main with one file found, of any text, under any converter and table.
InitPipe ==
    /\ cc \in {"s2t", "identity", "pad"}
    /\ manual_corrections \in PipeTables
    /\ \E files \in [{1} -> TextsOver(PipeAlphabet, MaxPipeLen)] : InitMain(files)

SpecPipe == InitPipe /\ [][Next]_vars

---------------------------------------------------------------------------
(* The corrections and the line trim as functions of any text *)

\* No batch: the stage is entered directly with its input.
NoBatch ==
    /\ json_files = <<>>
    /\ fs = <<>>
    /\ fs0 = <<>>
    /\ outcome = <<>>
    /\ file_idx = 1
    /\ success_count = 0
    /\ failed_files = <<>>
    /\ report = "None"
    /\ error = "None"
    /\ text = <<>>
    /\ i = 0
    /\ in_string = FALSE
    /\ escape_next = FALSE
    /\ current_segment = <<>>
    /\ string_start_char = "None"
    /\ result = <<>>
    /\ segments = <<>>
    /\ boundaries = {}
    /\ steps = 0
    /\ stage_in = <<>>

CorrAlphabet == {"a", "b", "x", "y"}

OrderedTable == << << <<"a", "b">>, <<"x">> >>, << <<"x">>, <<"y">> >> >>

CorrTables ==
    { <<>>,
      OrderedTable,
      << << <<"x">>, <<"y">> >>, << <<"a", "b">>, <<"x">> >> >>,
      << << <<"a", "a">>, <<"b">> >>, << <<"b">>, <<>> >>, << <<"y">>, <<"x", "x">> >> >> }

\* apply_manual_corrections is entered with any text and any table.
InitCorr ==
    /\ cc = "identity"
    /\ manual_corrections \in CorrTables
    /\ converted_text \in TextsOver(CorrAlphabet, MaxCorrLen)
    /\ pc = "corrections"
    /\ NoBatch

SpecCorr == InitCorr /\ [][ApplyManualCorrections]_vars

LineAlphabet == {SPACE, TAB, CR, IDEOGRAPHIC_SPACE, LF, "A"}

\* Lines 107-109 are entered with any text.
InitLine ==
    /\ cc = "identity"
    /\ manual_corrections = MANUAL_CORRECTIONS
    /\ converted_text \in TextsOver(LineAlphabet, MaxLineLen)
    /\ pc = "rstrip"
    /\ NoBatch

SpecLine == InitLine /\ [][RstripLines]_vars

---------------------------------------------------------------------------
(* Properties of the scanner *)

\* The character at position p of t is deferred by an escape marker: it
\* follows a backslash that is not itself deferred.
RECURSIVE Escaped(_, _)
Escaped(t, p) == p > 1 /\ t[p - 1] = BACKSLASH /\ ~Escaped(t, p - 1)

Scanned == pc \in {"corrections", "rstrip", "write"}

\* C1 (round-trip identity): with the identity converter, at every point
\* of the scan the pieces emitted so far followed by the buffer are the
\* input read so far, and the text joined at line 101 is the input,
\* character for character.
C1_RoundTrip ==
    cc = "identity" =>
        /\ pc = "scan" => join(<<>>, result) \o current_segment = SubSeq(text, 1, i)
        /\ pc = "corrections" => converted_text = text

\* An unterminated string that ends in a backslash has been scanned and
\* joined.
C1_Witness ==
    /\ cc = "identity"
    /\ pc = "corrections"
    /\ in_string
    /\ escape_next
    /\ Len(text) >= 3
    /\ converted_text = text

Unterminated(t, p) ==
    /\ p \in 1..Len(t)
    /\ t[p] \in QUOTES
    /\ ~Escaped(t, p)
    /\ \A q \in 1..(p - 1) : t[q] \in QUOTES => Escaped(t, q)
    /\ \A q \in (p + 1)..Len(t) : t[q] = t[p] => Escaped(t, q)

TwoSegments(t, p) ==
    << [kind |-> "Structural", content |-> SubSeq(t, 1, p - 1)],
       [kind |-> "String", content |-> SubSeq(t, p + 1, Len(t))] >>

NotEmpty(segment) == segment.content # <<>>

MixedExample == <<DQUOTE, "A", SQUOTE, "B", DQUOTE>>

\* C4 (mixed delimiters): inside a string opened by d, a step that reads
\* the other quote unescaped appends it to the buffer and changes neither
\* in_string nor string_start_char nor the segments; a step that leaves
\* the string has read d itself, unescaped; and the double-quoted A'B is
\* one String segment with content A'B.
C4_MixedDelimiter ==
    /\ [][(/\ pc = "scan"
           /\ i < Len(text)
           /\ in_string
           /\ ~escape_next
           /\ char \in QUOTES
           /\ char # string_start_char)
            => /\ pc' = "scan"
               /\ in_string'
               /\ string_start_char' = string_start_char
               /\ current_segment' = Append(current_segment, char)
               /\ segments' = segments
               /\ result' = result
               /\ boundaries' = boundaries]_vars
    /\ [][(pc = "scan" /\ in_string /\ ~in_string')
            => /\ i < Len(text)
               /\ ~escape_next
               /\ char = string_start_char]_vars
    /\ [][(text = MixedExample /\ pc = "scan" /\ pc' = "corrections")
            => segments' = << [kind |-> "String",
                               content |-> <<"A", SQUOTE, "B">>] >>]_vars

\* The double-quoted A'B has been scanned.
C4_Witness ==
    /\ text = MixedExample
    /\ pc = "corrections"
    /\ Len(segments) = 1
    /\ boundaries = {1, 5}

\* The branches of the loop body whose conditions hold.
BranchesOpen ==
    {b \in 1..6 :
        CASE b = 1 -> ENABLED ScanEscaped
          [] b = 2 -> ENABLED ScanBackslash
          [] b = 3 -> ENABLED ScanOpenQuote
          [] b = 4 -> ENABLED ScanCloseQuote
          [] b = 5 -> ENABLED ScanOtherQuote
          [] b = 6 -> ENABLED ScanOrdinary}

\* C9 (totality and termination of the scan): every iteration of the
\* loop takes exactly one branch and consumes exactly one character, so
\* the loop has run i times; it ends at i = len(text) after len(text)
\* iterations, where the final flush is taken; and the only exception
\* that leaves the scan is the converter's.
C9_ScanTotal ==
    /\ pc = "scan" =>
           /\ steps = i
           /\ i <= Len(text)
           /\ i < Len(text) => Cardinality(BranchesOpen) = 1
           /\ i = Len(text) => (BranchesOpen = {} /\ ENABLED FinalFlush)
    /\ Scanned => (i = Len(text) /\ steps = Len(text))
    /\ (pc = "except" /\ error # "IoError") =>
           /\ error = "TransformError"
           /\ \/ i < Len(text) /\ ~escape_next /\ char \in QUOTES
              \/ i = Len(text) /\ current_segment # <<>>

\* An input that ends right after a backslash has been scanned to its
\* end.
C9_Witness ==
    /\ pc = "corrections"
    /\ Len(text) >= 3
    /\ text[Len(text)] = BACKSLASH
    /\ escape_next
    /\ steps = Len(text)

---------------------------------------------------------------------------
(* Properties of the corrections and of the line trim *)

\* The text after the first n pairs of the table, each pair a replace-all
\* over the text the pairs before it produced.
RECURSIVE AfterPairs(_, _, _)
AfterPairs(s, table, n) ==
    IF n = 0 THEN s
    ELSE str_replace(AfterPairs(s, table, n - 1), table[n][1], table[n][2])

\* Every character of s equal to c replaced by new, the others kept.
RECURSIVE MapChar(_, _, _)
MapChar(s, c, new) ==
    IF s = <<>> THEN <<>>
    ELSE (IF Head(s) = c THEN new ELSE <<Head(s)>>) \o MapChar(Tail(s), c, new)

\* C5 (correction ordering): the text apply_manual_corrections returns
\* is the text after all the pairs, applied in table order, each to the
\* output of the pairs before it; a pair with a one-character key
\* replaces every occurrence of it; and the table [(ab, x), (x, y)]
\* turns ab into y.
C5_CorrectionOrder ==
    pc = "rstrip" =>
        /\ converted_text = AfterPairs(stage_in, manual_corrections,
                                       Len(manual_corrections))
        /\ \A n \in 1..Len(manual_corrections) :
               Len(manual_corrections[n][1]) = 1 =>
                   AfterPairs(stage_in, manual_corrections, n)
                       = MapChar(AfterPairs(stage_in, manual_corrections, n - 1),
                                 manual_corrections[n][1][1],
                                 manual_corrections[n][2])
        /\ (manual_corrections = OrderedTable /\ stage_in = <<"a", "b">>)
               => converted_text = <<"y">>

\* The table [(ab, x), (x, y)] has been applied to ab.
C5_Witness ==
    /\ pc = "rstrip"
    /\ manual_corrections = OrderedTable
    /\ stage_in = <<"a", "b">>
    /\ converted_text = <<"y">>

\* C6 (idempotent line trim): trimming the text that lines 107-109
\* produced gives that text again.
C6_TrimIdempotent ==
    pc = "write" =>
        /\ converted_text = rstrip_lines(stage_in)
        /\ rstrip_lines(converted_text) = converted_text

\* A text of several lines with trailing whitespace has been trimmed,
\* and the trim changed it.
C6_Witness ==
    /\ pc = "write"
    /\ Len(split_lines(stage_in)) >= 2
    /\ converted_text # stage_in
    /\ rstrip_lines(converted_text) = converted_text

IsPrefix(a, b) == Len(a) <= Len(b) /\ SubSeq(b, 1, Len(a)) = a

\* C10 as stated: the trim keeps the number of lines, and takes from the
\* end of each line its trailing spaces and tabs and nothing else.
C10_TrimsSpacesAndTabsOnly ==
    pc = "write" =>
        LET before == split_lines(stage_in)
            after == split_lines(converted_text)
        IN  /\ Len(after) = Len(before)
            /\ \A n \in 1..Len(before) :
                   /\ IsPrefix(after[n], before[n])
                   /\ \A q \in (Len(after[n]) + 1)..Len(before[n]) :
                          before[n][q] \in {SPACE, TAB}
                   /\ (after[n] # <<>> => after[n][Len(after[n])] \notin {SPACE, TAB})

---------------------------------------------------------------------------
(* Properties of the batch *)

Failed(p) == outcome[p] \in {"TransformError", "IoError"}

\* The names of the paths among the first n of json_files that failed.
RECURSIVE FailedNames(_)
FailedNames(n) ==
    IF n = 0 THEN <<>>
    ELSE IF Failed(json_files[n])
         THEN Append(FailedNames(n - 1), FileName(json_files[n]))
         ELSE FailedNames(n - 1)

\* C7 (batch isolation): whatever failed, main goes on to the next file:
\* at the head of the loop every file before file_idx has been processed,
\* and at the end every file has; the failures recorded and reported are
\* exactly the files whose conversion failed, and the successes the
\* others. Of three files of which the second fails in the converter,
\* two are counted as converted and one failure, the second, is reported.
C7_BatchIsolation ==
    /\ pc \in {"main_loop", "done"} =>
           /\ \A n \in 1..(file_idx - 1) : outcome[json_files[n]] # "pending"
           /\ failed_files = FailedNames(file_idx - 1)
           /\ success_count = Cardinality({p \in DOMAIN outcome : outcome[p] = "ok"})
    /\ pc = "done" =>
           /\ file_idx = Len(json_files) + 1
           /\ \A p \in DOMAIN outcome : outcome[p] # "pending"
           /\ report.failed = Cardinality({p \in DOMAIN outcome : Failed(p)})
           /\ report.succeeded + report.failed = report.total
           /\ outcome = <<"ok", "TransformError", "ok">>
                  => /\ report.succeeded = 2
                     /\ report.failed = 1
                     /\ report.shown = <<FileName(2)>>

\* Three files, the second failed in the converter, the batch is over.
C7_Witness ==
    /\ pc = "done"
    /\ outcome = <<"ok", "TransformError", "ok">>
    /\ fs[1] # fs0[1]
    /\ fs[3] # fs0[3]

\* C8 (a converter failure discards the partial output): a file whose
\* conversion failed in the converter holds what it held before the run,
\* and is recorded as failed, not as converted.
C8_NoPartialWrite ==
    \A p \in DOMAIN outcome :
        outcome[p] = "TransformError" =>
            /\ fs[p] = fs0[p]
            /\ pc \in {"main_loop", "done"} =>
                   \E n \in 1..Len(failed_files) : failed_files[n] = FileName(p)

\* The converter failed after part of the file had been converted, and
\* the batch is over.
C8_Witness ==
    /\ pc = "done"
    /\ cc = "s2t"
    /\ outcome = <<"TransformError">>
    /\ result # <<>>
    /\ join(<<>>, result) # SubSeq(fs0[1], 1, Len(join(<<>>, result)))
    /\ fs[1] = fs0[1]

---------------------------------------------------------------------------
(* Properties of the reassembly *)

\* The elements of a set of positions, in increasing order.
RECURSIVE Sorted(_)
Sorted(B) ==
    IF B = {} THEN <<>>
    ELSE LET m == CHOOSE x \in B : \A y \in B : x <= y
         IN  <<m>> \o Sorted(B \ {m})

\* The stretches of t between the positions of B, in order: the odd ones
\* lie outside the strings, the even ones inside; a stretch is closed
\* when a position of B ends it.
Gaps(t, B) ==
    LET b == Sorted(B)
        from(j) == IF j = 1 THEN 1 ELSE b[j - 1] + 1
        to(j) == IF j > Len(b) THEN Len(t) ELSE b[j] - 1
    IN  [j \in 1..(Len(b) + 1) |->
            [kind |-> IF j % 2 = 1 THEN "Structural" ELSE "String",
             content |-> SubSeq(t, from(j), to(j)),
             closed |-> j <= Len(b)]]

\* The stretches that lines 66-69, 78-80 and 96-99 hand to cc.convert.
Converted(gap) == gap.content # <<>> \/ (gap.kind = "String" /\ gap.closed)

Segment(gap) == [kind |-> gap.kind, content |-> gap.content]

\* t with the stretches between the positions of B converted and the
\* characters at the positions of B as they are.
RECURSIVE RenderFrom(_, _, _)
RenderFrom(t, B, j) ==
    LET gaps == Gaps(t, B)
        b == Sorted(B)
    IN  IF j > Len(gaps) THEN <<>>
        ELSE (IF Converted(gaps[j]) THEN cc_convert(gaps[j].content) ELSE <<>>)
             \o (IF j <= Len(b) THEN <<t[b[j]]>> ELSE <<>>)
             \o RenderFrom(t, B, j + 1)

Render(t, B) == RenderFrom(t, B, 1)

SegmentsOf(t, B) ==
    LET called == SelectSeq(Gaps(t, B), Converted)
    IN  [n \in 1..Len(called) |-> Segment(called[n])]

\* C11 (delimiters are never transformed): whatever the converter, the
\* text joined at line 101 is, in order, the converted content of each
\* segment with the quote that opened or closed a string put between
\* them as it was read; the contents handed to the converter are the
\* stretches of the input between those quotes, so none of them holds a
\* quote that acted as a boundary.
C11_DelimitersVerbatim ==
    pc = "corrections" =>
        /\ converted_text = Render(text, boundaries)
        /\ segments = SegmentsOf(text, boundaries)
        /\ \A p \in boundaries : text[p] \in QUOTES

\* Under the padding converter a text with a closed string between two
\* stretches of other text has been joined: the quotes are there
\* unpadded.
C11_Witness ==
    /\ pc = "corrections"
    /\ cc = "pad"
    /\ Cardinality(boundaries) = 2
    /\ Len(segments) = 3
    /\ converted_text # text
    /\ converted_text = Render(text, boundaries)

---------------------------------------------------------------------------
(* Properties of the steps of the scan *)

\* The loop is about to read an unescaped quote outside a string.
AtOpeningQuote ==
    /\ pc = "scan"
    /\ i < Len(text)
    /\ ~escape_next
    /\ char \in QUOTES
    /\ ~in_string

AdjacentStrings == <<DQUOTE, "A", DQUOTE, SQUOTE, "B", SQUOTE>>

RECURSIVE DelimAfter(_, _)
DelimAfter(t, p) ==
    IF p = 0 THEN "None"
    ELSE LET d == DelimAfter(t, p - 1)
         IN  IF t[p] \notin QUOTES \/ Escaped(t, p) THEN d
             ELSE IF d = "None" THEN t[p]
             ELSE IF d = t[p] THEN "None"
             ELSE d

\* The position of the quote that opened the string open after the first
\* p characters of t (0 outside a string).
RECURSIVE OpenedAt(_, _)
OpenedAt(t, p) ==
    IF p = 0 THEN 0
    ELSE IF DelimAfter(t, p) = "None" THEN 0
    ELSE IF DelimAfter(t, p - 1) = "None" THEN p
    ELSE OpenedAt(t, p - 1)

\* The scan of the file at hand is under way or over.
InCall == pc \in {"scan", "corrections", "rstrip", "write"}

\* C13 (a String segment excludes its delimiters): the content of every
\* String segment is the input from the character after the opening
\* quote to the character before the closing quote (or to the end of
\* the input), and every character in it that equals the opening quote
\* follows an escape marker; the same holds of the buffer while a
\* string is open.
C13_ContentExcludesDelimiter ==
    /\ Scanned =>
           LET b == Sorted(boundaries)
               strings == SelectSeq(segments, LAMBDA sg : sg.kind = "String")
               stretches == SelectSeq(Gaps(text, boundaries),
                                      LAMBDA g : g.kind = "String" /\ Converted(g))
           IN  /\ Len(strings) = Len(stretches)
               /\ \A n \in 1..Len(strings) : strings[n].content = stretches[n].content
               /\ \A j \in 1..Len(b) :
                      j % 2 = 1 =>
                          \A q \in (b[j] + 1)..((IF j < Len(b) THEN b[j + 1] ELSE Len(text) + 1) - 1) :
                              text[q] = text[b[j]] => Escaped(text, q)
    /\ (pc = "scan" /\ in_string) =>
           LET open == OpenedAt(text, i)
           IN  /\ open \in boundaries
               /\ text[open] = string_start_char
               /\ current_segment = SubSeq(text, open + 1, i)
               /\ \A q \in (open + 1)..i :
                      text[q] = string_start_char => Escaped(text, q)

\* A closed string whose content holds its own delimiter, escaped.
C13_Witness ==
    /\ Scanned
    /\ ~in_string
    /\ \E n \in 1..Len(segments) :
           /\ segments[n].kind = "String"
           /\ \E q \in 1..Len(segments[n].content) :
                  segments[n].content[q] = text[1]
    /\ Cardinality(boundaries) = 2
    /\ 1 \in boundaries

EscapedBackslash == <<DQUOTE, BACKSLASH, BACKSLASH, DQUOTE>>

\* C14 (an escape defers exactly one character): the character read
\* while escape_next is set joins the backslash in the buffer and clears
\* escape_next; the step neither opens nor closes a string, sets no new
\* escape and flushes nothing; escape_next is set exactly when the last
\* character read is a backslash that was not itself deferred; and in
\* the double-quoted string of two backslashes the second quote closes
\* the string.
C14_EscapeDefersOne ==
    /\ [][(pc = "scan" /\ i < Len(text) /\ escape_next)
            => /\ pc' = "scan"
               /\ i' = i + 1
               /\ current_segment # <<>>
               /\ current_segment[Len(current_segment)] = BACKSLASH
               /\ current_segment' = Append(current_segment, char)
               /\ ~escape_next'
               /\ in_string' = in_string
               /\ string_start_char' = string_start_char
               /\ result' = result
               /\ segments' = segments
               /\ boundaries' = boundaries]_vars
    /\ [][pc' = "scan"
            => (escape_next' <=> (i' > 0 /\ text'[i'] = BACKSLASH /\ ~Escaped(text', i')))]_vars
    /\ [][(text = EscapedBackslash /\ pc = "scan" /\ pc' = "corrections")
            => /\ ~in_string'
               /\ boundaries' = {1, 4}
               /\ segments' = << [kind |-> "String",
                                  content |-> <<BACKSLASH, BACKSLASH>>] >>]_vars

\* The double-quoted string of two backslashes has been scanned and is
\* closed.
C14_Witness ==
    /\ text = EscapedBackslash
    /\ pc = "corrections"
    /\ ~in_string
    /\ ~escape_next
    /\ boundaries = {1, 4}

EscapedQuoteOutside == <<BACKSLASH, DQUOTE>>

\* C15 (escapes outside strings): a backslash read with escape_next
\* clear sets escape_next whether or not a string is open, and only
\* joins the buffer; a quote read right after a backslash outside a
\* string leaves in_string false; the input of a backslash and a quote
\* is one Structural segment.
C15_EscapeOutsideString ==
    /\ [][(pc = "scan" /\ i < Len(text) /\ ~escape_next /\ char = BACKSLASH)
            => /\ pc' = "scan"
               /\ escape_next'
               /\ in_string' = in_string
               /\ string_start_char' = string_start_char
               /\ current_segment' = Append(current_segment, char)
               /\ boundaries' = boundaries]_vars
    /\ [][(pc = "scan" /\ i < Len(text) /\ escape_next /\ ~in_string
           /\ char \in QUOTES /\ text[i] = BACKSLASH)
            => (~in_string' /\ boundaries' = boundaries)]_vars
    /\ [][(text = EscapedQuoteOutside /\ pc = "scan" /\ pc' = "corrections")
            => /\ ~in_string'
               /\ boundaries' = {}
               /\ segments' = << [kind |-> "Structural",
                                  content |-> <<BACKSLASH, DQUOTE>>] >>]_vars

\* Outside any string a quote has just been read after a backslash, and
\* no string is open.
C15_Witness ==
    /\ pc = "scan"
    /\ i >= 2
    /\ text[i] \in QUOTES
    /\ text[i - 1] = BACKSLASH
    /\ Escaped(text, i)
    /\ boundaries = {}
    /\ ~in_string
    /\ ~escape_next

\* C19 (consistency of the scan state): during and after a scan a
\* delimiter is recorded exactly when in_string is true; it is then one
\* of the two quote characters, namely the unescaped quote that opened
\* the string still open; and the quotes taken as boundaries so far are
\* those the text alone determines.
C19_ScanStateConsistent ==
    InCall =>
        /\ in_string <=> string_start_char # "None"
        /\ in_string => string_start_char \in QUOTES
        /\ string_start_char = DelimAfter(text, i)
        /\ in_string =>
               LET open == OpenedAt(text, i)
               IN  /\ open \in boundaries
                   /\ \A b \in boundaries : b <= open
                   /\ ~Escaped(text, open)
                   /\ text[open] = string_start_char
        /\ ~in_string => Cardinality(boundaries) % 2 = 0
        /\ boundaries = {p \in 1..i : /\ text[p] \in QUOTES
                                      /\ ~Escaped(text, p)
                                      /\ DelimAfter(text, p - 1) \in {"None", text[p]}}

\* A string was closed and another, opened by the other quote, is open
\* and holds the first quote as content.
C19_Witness ==
    /\ pc = "scan"
    /\ in_string
    /\ Cardinality(boundaries) = 3
    /\ string_start_char = SQUOTE
    /\ current_segment = <<DQUOTE>>

---------------------------------------------------------------------------
(* Properties of the pipeline *)

\* The last position of B (0 when B is empty).
LastOf(B) == IF B = {} THEN 0 ELSE CHOOSE x \in B : \A y \in B : y <= x

\* Where the stages of one file follow one another.
StageOrder ==
    { <<"main_loop", "scan">>, <<"scan", "scan">>, <<"scan", "corrections">>,
      <<"corrections", "rstrip">>, <<"rstrip", "write">>, <<"write", "main_loop">> }

LiInString == <<DQUOTE, ZH_LI, DQUOTE, SPACE>>

\* C17 (order of the stages): a file goes through the scan, the
\* corrections, the line trim and the write in that order, or leaves
\* for the handler; while the scan runs the pieces collected are the
\* converter's results as they came, with no correction applied; the
\* corrections are entered when the whole text is scanned and every
\* segment converted, and are applied once, to the joined text; the line
\* trim is applied to the corrected text; the file gets the trimmed text.
C17_StageOrder ==
    /\ [][pc' \in {"except", "done"}
               \/ <<pc, pc'>> \in StageOrder \cup {<<"except", "main_loop">>}]_vars
    /\ [](pc = "scan" =>
             join(<<>>, result)
                 = Render(SubSeq(text, 1, LastOf(boundaries)), boundaries))
    /\ [][pc' = "corrections" =>
             /\ i' = Len(text')
             /\ segments' = SegmentsOf(text', boundaries')
             /\ converted_text' = Render(text', boundaries')]_vars
    /\ [][pc' = "rstrip" =>
             /\ stage_in' = Render(text', boundaries')
             /\ converted_text' = apply_manual_corrections(stage_in', manual_corrections')]_vars
    /\ [][pc' = "write" =>
             /\ stage_in' = apply_manual_corrections(Render(text', boundaries'),
                                                      manual_corrections')
             /\ converted_text' = rstrip_lines(stage_in')]_vars
    /\ [][(pc = "write" /\ pc' = "main_loop") =>
             fs'[CurrentPath] = rstrip_lines(apply_manual_corrections(
                                    Render(text, boundaries), manual_corrections))]_vars

\* The simplified li in a string followed by a space has gone through
\* the three stages under OpenCC: converted to the variant, the variant
\* corrected, the trailing space trimmed.
C17_Witness ==
    /\ pc = "write"
    /\ cc = "s2t"
    /\ text = LiInString
    /\ stage_in = <<DQUOTE, "U+88E1", DQUOTE, SPACE>>
    /\ converted_text = <<DQUOTE, "U+88E1", DQUOTE>>

\* The quotes of t that open or close a string, from t alone.
BoundariesOf(t) ==
    {p \in 1..Len(t) : /\ t[p] \in QUOTES
                        /\ ~Escaped(t, p)
                        /\ DelimAfter(t, p - 1) \in {"None", t[p]}}

\* What convert_chinese_in_text returns for t, from t, the converter and
\* the table alone.
Pipeline(t) ==
    rstrip_lines(apply_manual_corrections(Render(t, BoundariesOf(t)),
                                          manual_corrections))

OpenAndEscaping == <<SQUOTE, BACKSLASH>>

\* C18 (documents are independent): every call starts on the file as it
\* was found, with in_string and escape_next false, no delimiter and an
\* empty buffer, whatever the calls before it left; no step changes a
\* file other than the one at hand; and the text written to a file is
\* the function of that file's own text that the converter and the table
\* determine, whatever was processed before it.
C18_DocumentIndependence ==
    /\ [][(pc = "main_loop" /\ pc' = "scan") =>
             /\ text' = fs0[CurrentPath]
             /\ i' = 0
             /\ ~in_string'
             /\ ~escape_next'
             /\ string_start_char' = "None"
             /\ current_segment' = <<>>
             /\ result' = <<>>]_vars
    /\ [][\A p \in DOMAIN fs :
              fs'[p] # fs[p] => (pc = "write" /\ p = CurrentPath)]_vars
    /\ [][(pc = "write" /\ pc' = "main_loop") =>
             /\ outcome'[CurrentPath] = "ok"
             /\ fs'[CurrentPath] = Pipeline(fs0[CurrentPath])]_vars
    /\ [](\A p \in DOMAIN fs : outcome[p] = "pending" => fs[p] = fs0[p])
    /\ [](\A p \in DOMAIN fs : outcome[p] = "ok" => fs[p] = Pipeline(fs0[p]))

\* The first file ended inside a string right after a backslash, the
\* second failed in the converter, and the third, with the same text as
\* the second, is converted as it would be alone.
C18_Witness ==
    /\ cc = "s2t"
    /\ Len(json_files) = 3
    /\ fs0[1] = OpenAndEscaping
    /\ outcome[1] = "ok"
    /\ fs0[2] = <<DQUOTE, ZH_LI, DQUOTE>>
    /\ outcome[2] = "TransformError"
    /\ fs0[3] = fs0[2]
    /\ outcome[3] = "ok"
    /\ fs[3] = <<DQUOTE, "U+88E1", DQUOTE>>

\* No line of s, the last one included, ends in a space or a tab.
NoTrailingBlank(s) ==
    \A p \in 1..(Len(s) + 1) :
        (p = Len(s) + 1 \/ s[p] = LF) => (p = 1 \/ s[p - 1] \notin {SPACE, TAB})

PaddedLines == <<SPACE, "A", SPACE, LF, "A", SPACE, SPACE>>

\* C20 (postcondition of the pipeline): whatever the text, the converter
\* and the corrections table, the text convert_chinese_in_text returns
\* has no line that ends in a space or a tab, and neither has the file
\* written from it.
C20_NoTrailingBlank ==
    /\ pc = "write" => NoTrailingBlank(converted_text)
    /\ \A p \in DOMAIN fs : outcome[p] = "ok" => NoTrailingBlank(fs[p])

\* Under the padding converter and the table that puts a space after a
\* character both lines of the corrected text ended in spaces; the text
\* returned has them trimmed.
C20_Witness ==
    /\ pc = "write"
    /\ cc = "pad"
    /\ text = <<"A", LF, "A">>
    /\ stage_in = PaddedLines
    /\ ~NoTrailingBlank(stage_in)
    /\ converted_text = <<SPACE, "A", LF, "A">>

---------------------------------------------------------------------------
(* Properties of the batch as a whole *)

\* How far the run has come: the file, the stage within the file, the
\* character within the scan.
Progress ==
    LET stage == CASE pc = "main_loop" -> 0
                   [] pc = "scan" -> 1
                   [] pc = "corrections" -> 2
                   [] pc = "rstrip" -> 3
                   [] pc = "write" -> 4
                   [] pc = "except" -> 5
                   [] pc = "done" -> 6
    IN  file_idx * 1000 + stage * 100 + (IF pc = "scan" THEN i ELSE 0)

\* Some step of the program can be taken. The corrections stage is the
\* assignment of a total function of the text, so it can proceed where
\* that function has a value.
CanStep ==
    CASE pc = "main_loop" -> ENABLED (ReadFile \/ PrintSummary)
      [] pc = "scan" -> ENABLED (ScanStep \/ FinalFlush)
      [] pc = "corrections" ->
             Len(apply_manual_corrections(converted_text, manual_corrections)) >= 0
      [] pc = "rstrip" -> ENABLED RstripLines
      [] pc = "write" -> ENABLED WriteFile
      [] pc = "except" -> ENABLED ExceptHandler
      [] OTHER -> FALSE

\* C16 (batch accounting): the run is never stuck before the summary and
\* every step takes it further, so it completes; a conversion is started
\* only on a file that has no outcome yet and an outcome is never
\* replaced, so every file is attempted once; at the end every file has
\* an outcome, the files converted and the files failed add up to the
\* files found, and the summary shows the first 10 failed names in the
\* order of processing and, beyond 10 failures, how many more there are.
C16_BatchAccounting ==
    /\ [][Progress' > Progress]_vars
    /\ [][(pc = "main_loop" /\ pc' \in {"scan", "except"})
            => /\ outcome[CurrentPath] = "pending"
               /\ \A n \in 1..(file_idx - 1) : outcome[json_files[n]] # "pending"]_vars
    /\ [][\A p \in DOMAIN outcome :
              outcome[p] # "pending" => outcome'[p] = outcome[p]]_vars
    /\ [][pc' = "done" =>
            LET failed == Cardinality({p \in DOMAIN outcome' : outcome'[p] \in {"TransformError", "IoError"}})
                ok == Cardinality({p \in DOMAIN outcome' : outcome'[p] = "ok"})
                names == FailedNames(Len(json_files))
            IN  /\ \A p \in DOMAIN outcome' : outcome'[p] # "pending"
                /\ success_count' = ok
                /\ Len(failed_files') = failed
                /\ ok + failed = Len(json_files')
                /\ report'.succeeded = ok
                /\ report'.total = Len(json_files')
                /\ report'.failed = failed
                /\ failed_files' = names
                /\ report'.shown = SubSeq(names, 1, IF failed < 10 THEN failed ELSE 10)
                /\ report'.more = (IF failed > 10 THEN failed - 10 ELSE 0)]_vars
    /\ [](pc = "done" \/ CanStep)

\* Eleven files failed: ten names are shown and one more is counted.
C16_Witness ==
    /\ pc = "done"
    /\ Len(failed_files) = 11
    /\ Len(report.shown) = 10
    /\ report.shown = SubSeq(failed_files, 1, 10)
    /\ report.more = 1
    /\ report.succeeded = 0

====
